---------------------------- MODULE Spec2Model ----------------------------
(***************************************************************************)
(* Training-to-serving lifecycle of the NYC taxi demand predictor.         *)
(*                                                                         *)
(*   urban_mobility_forecaster/config.py  FEATURE_COLUMNS, artifact paths  *)
(*   urban_mobility_forecaster/train.py   main, save_model                 *)
(*   urban_mobility_forecaster/api.py     load_model, startup_event,       *)
(*                                        /health, /predict, /info         *)
(*                                                                         *)
(* Two processes share the Artifact Store (three files under models/):     *)
(* the trainer, which writes it, and the serving process, which reads it   *)
(* into the module-level cache (_model, _results).  Every request handler  *)
(* of api.py is an `async def` without any await, so it runs to completion *)
(* on the event loop: one handler is one action.  The trainer is another   *)
(* operating-system process, so each of its file operations is a step of   *)
(* its own that interleaves with the handlers.                             *)
(*                                                                         *)
(* Python's None and every optional value is a set with at most one        *)
(* element: None == {}, a value v is {v}.  A raw prediction is a whole      *)
(* number of pickups, as the limits of the confidence buckets are.         *)
(***************************************************************************)
EXTENDS Integers, Sequences, FiniteSets, TLC

\* ------------------------------------------------------------- bounds
\* Training runs started in one behaviour.
MaxRuns == 1
\* Requests received by the serving process in one behaviour.
MaxRequests == 2
\* A raw prediction lies between -MaxNeg and MaxRaw pickups.
MaxNeg == 2
MaxRaw == 21
\* Distinct valid request bodies: body k carries k * i in its i-th field.
MaxBody == 1

\* ------------------------------------------------------------- optional values
None == {}

Some(v) == {v}

The(o) == CHOOSE v \in o : TRUE

\* dict.get(key): None when the key is missing.
Get(d, k) == IF k \in DOMAIN d THEN Some(d[k]) ELSE None

\* o.get(key) on an optional dict that defaults to {} when it is None:
\* d.get(k1, {}).get(k2) written level by level.
GetIn(o, k) == IF o = None THEN None ELSE Get(The(o), k)

\* Python truthiness of `results`: None and the empty dict are falsy.
Truthy(o) == o # None /\ DOMAIN The(o) # {}

\* ------------------------------------------------------------- config.py
FEATURE_COLUMNS ==
    << "hour_sin", "hour_cos",
       "dow_sin", "dow_cos",
       "month_sin", "month_cos",
       "lag_1h", "lag_24h", "lag_168h",
       "diff_24h",
       "rolling_7d_mean", "rolling_7d_std",
       "rolling_14d_mean", "rolling_7d_cv",
       "zone_mean_demand", "zone_rank", "zone_is_top50" >>

\* The non-integer values are kept as their decimal text.
XGBOOST_PARAMS ==
    [ n_estimators |-> 500, max_depth |-> 6, learning_rate |-> "0.1",
      subsample |-> "0.8", colsample_bytree |-> "0.8", random_state |-> 42,
      n_jobs |-> -1 ]

\* The three resources of the Artifact Store (MODEL_FILE, FEATURE_LIST_FILE,
\* RESULTS_FILE).
Resources == {"model", "features", "results"}

\* ------------------------------------------------------------- files
\* A file is absent, torn (opened for writing and truncated, its content not
\* or not wholly written: unreadable by pickle.load / json.load) or whole.
\* A whole file carries the training run that wrote it (0: a run before this
\* behaviour began) and its content.
Absent == [tag |-> "absent"]

Torn == [tag |-> "torn"]

File(r, content) == [tag |-> "file", run |-> r, data |-> content]

Exists(f) == f.tag # "absent"

Readable(f) == f.tag = "file"

\* ------------------------------------------------------------- state
VARIABLES
    \* Artifact Store
    modelFile,      \* models/xgboost_model.pkl
    featureFile,    \* models/feature_list.txt
    resultsFile,    \* models/results.json
    \* trainer process (train.py main)
    tpc,            \* where the current training run stands
    run,            \* number of the current training run (0: none yet)
    trained,        \* the fitted model returned by train_model, or None
    metrics,        \* the results returned by evaluate_model, or None
    storeAtStart,   \* the store as it was when the current run started
    \* serving process (api.py)
    lifespan,       \* TRUE: run by an ASGI server that fires the startup event
    strictNone,     \* TRUE: the installed pydantic rejects an explicit None
                    \* for a field annotated `float = None` (2.x);
                    \* FALSE: it reads the annotation as Optional (1.x)
    phase,          \* "starting", "ready" or "failed" (startup raised)
    _model,         \* the global _model: None or the unpickled model
    _results,       \* the global _results: None or the parsed results.json
    pending,        \* requests received and not yet handled: how many came
                    \* while _model was None (cold), how many later (warm)
    handled,        \* requests handled so far
    modelLoads,     \* pickle.load calls that returned, in this process
    firstLoad,      \* what the first load_model call that returned, returned
    lastLoad,       \* the load_model call of the latest request (or of the
                    \* startup), or None when it made none: what it did, and
                    \* whether it came later than that first one
    coldHandled,    \* requests handled that arrived while _model was None
    lastInfer,      \* the model.predict call of the latest request, or None
    lastReq,        \* the latest request handled
    lastResp        \* the response to it

store == [model |-> modelFile, features |-> featureFile, results |-> resultsFile]

storeVars == << modelFile, featureFile, resultsFile >>

trainVars == << tpc, run, trained, metrics, storeAtStart >>

cacheVars == << _model, _results >>

serveVars == << lifespan, strictNone, phase, _model, _results, pending, handled,
                modelLoads, firstLoad, lastLoad, coldHandled, lastInfer,
                lastReq, lastResp >>

vars == << storeVars, trainVars, serveVars >>

\* ------------------------------------------------------------- api.py: load_model
NoExc == "none"

\* LoadModelPart without the `if _model is None` test: the file is read on
\* every call.
LoadModelPartUncached(m, mf) ==
    IF ~Exists(mf)
      THEN [exc |-> "FileNotFoundError", model |-> m,
            probed |-> {"model"}, opened |-> {}, unpickled |-> 0]
    ELSE IF ~Readable(mf)
      THEN [exc |-> "UnpicklingError", model |-> m,
            probed |-> {"model"}, opened |-> {"model"}, unpickled |-> 0]
    ELSE [exc |-> "none", model |-> {mf.data},
          probed |-> {"model"}, opened |-> {"model"}, unpickled |-> 1]

\* Lines 37-44: the model half.  A cached model is returned as it is; else
\* the file must exist, is opened and unpickled.  _model is assigned only
\* when pickle.load returns.
LoadModelPart(m, mf) ==
    IF m # None
      THEN [exc |-> NoExc, model |-> m, probed |-> {}, opened |-> {}, unpickled |-> 0]
    ELSE IF ~Exists(mf)
      THEN [exc |-> "FileNotFoundError", model |-> None,
            probed |-> {"model"}, opened |-> {}, unpickled |-> 0]
    ELSE IF ~Readable(mf)
      THEN [exc |-> "UnpicklingError", model |-> None,
            probed |-> {"model"}, opened |-> {"model"}, unpickled |-> 0]
    ELSE [exc |-> NoExc, model |-> Some(mf.data),
          probed |-> {"model"}, opened |-> {"model"}, unpickled |-> 1]

\* Lines 46-51: the results half.  Cached results are returned as they are;
\* else the file is parsed if it exists, and a missing file leaves None.
LoadResultsPart(r, rf) ==
    IF r # None
      THEN [exc |-> NoExc, results |-> r, probed |-> {}, opened |-> {}]
    ELSE IF ~Exists(rf)
      THEN [exc |-> NoExc, results |-> None, probed |-> {"results"}, opened |-> {}]
    ELSE IF ~Readable(rf)
      THEN [exc |-> "JSONDecodeError", results |-> None,
            probed |-> {"results"}, opened |-> {"results"}]
    ELSE [exc |-> NoExc, results |-> Some(rf.data),
          probed |-> {"results"}, opened |-> {"results"}]

\* load_model() called with the globals (m, r) and the two files as they are
\* at the call: the exception it raises (or none), the globals it leaves, the
\* files it probed with exists() and opened, and the pickle.load calls that
\* returned.  `model` and `results` are what it returns when it returns.
load_model(m, r, mf, rf) ==
    LET a == LoadModelPart(m, mf)
        b == LoadResultsPart(r, rf)
    IN  IF a.exc # NoExc
          THEN [exc |-> a.exc, model |-> a.model, results |-> r,
                probed |-> a.probed, opened |-> a.opened, unpickled |-> a.unpickled]
          ELSE [exc |-> b.exc, model |-> a.model, results |-> b.results,
                probed |-> a.probed \cup b.probed,
                opened |-> a.opened \cup b.opened, unpickled |-> a.unpickled]

\* ------------------------------------------------------------- api.py: schemas
\* The fields PredictionRequest declares, each required (Field(...)).
RequestFields ==
    { "hour_sin", "hour_cos", "dow_sin", "dow_cos", "month_sin", "month_cos",
      "lag_1h", "lag_24h", "lag_168h", "diff_24h",
      "rolling_7d_mean", "rolling_7d_std", "rolling_14d_mean", "rolling_7d_cv",
      "zone_mean_demand", "zone_rank", "zone_is_top50" }

\* A JSON value of a request body: a number, or a string that is no number.
Num(n) == [t |-> "num", v |-> n]

NotANumber == [t |-> "str", v |-> 0]

\* ValidRequest with the fields declared without a type: presence only.
ValidRequestUntyped(body) == \A f \in RequestFields : f \in DOMAIN body

\* The framework's validation of the body against PredictionRequest, done
\* before predict() is called: every declared field present and numeric.
ValidRequest(body) ==
    \A f \in RequestFields : f \in DOMAIN body /\ body[f].t = "num"

\* HealthResponse(test_mae=...): a float is accepted; an explicit None is
\* accepted when `float = None` is read as Optional and rejected otherwise.
HealthResponseValid(test_mae, strict) == test_mae # None \/ ~strict

\* ------------------------------------------------------------- responses
Response(ep, code, why, b) == [ep |-> ep, status |-> code, detail |-> why, body |-> b]

NoResponse == Response("none", 0, "", None)

\* ------------------------------------------------------------- api.py: /health
\* Line 119.
TestMae(results) ==
    IF Truthy(results)
      THEN GetIn(GetIn(Get(The(results), "metrics"), "test"), "mae")
      ELSE None

\* health_check answering 200 with model_loaded false instead of raising.
health_check_degraded(res, strict) ==
    Response("health", 200, "",
             Some([status |-> IF res.exc = "none" THEN "healthy" ELSE "degraded",
                   model_loaded |-> (res.exc = "none" /\ res.model # None),
                   n_features |-> Len(FEATURE_COLUMNS),
                   test_mae |-> None]))

\* Lines 117-129, given what load_model did.
health_check(res, strict) ==
    IF res.exc # NoExc
      THEN Response("health", 500, "Model not available", None)
    ELSE IF ~HealthResponseValid(TestMae(res.results), strict)
      THEN Response("health", 500, "Model not available", None)
    ELSE Response("health", 200, "",
                  Some([status |-> "healthy",
                        model_loaded |-> (res.model # None),
                        n_features |-> Len(FEATURE_COLUMNS),
                        test_mae |-> TestMae(res.results)]))

\* ------------------------------------------------------------- api.py: /predict
\* PredictFeatures with lag_1h and lag_24h in each other's place.
PredictFeaturesSwapped(body) ==
    << body["hour_sin"].v, body["hour_cos"].v,
       body["dow_sin"].v, body["dow_cos"].v,
       body["month_sin"].v, body["month_cos"].v,
       body["lag_24h"].v, body["lag_1h"].v, body["lag_168h"].v,
       body["diff_24h"].v,
       body["rolling_7d_mean"].v, body["rolling_7d_std"].v,
       body["rolling_14d_mean"].v, body["rolling_7d_cv"].v,
       body["zone_mean_demand"].v, body["zone_rank"].v,
       body["zone_is_top50"].v >>

\* Lines 143-161: the single row handed to the model.
PredictFeatures(body) ==
    << body["hour_sin"].v, body["hour_cos"].v,
       body["dow_sin"].v, body["dow_cos"].v,
       body["month_sin"].v, body["month_cos"].v,
       body["lag_1h"].v, body["lag_24h"].v, body["lag_168h"].v,
       body["diff_24h"].v,
       body["rolling_7d_mean"].v, body["rolling_7d_std"].v,
       body["rolling_14d_mean"].v, body["rolling_7d_cv"].v,
       body["zone_mean_demand"].v, body["zone_rank"].v,
       body["zone_is_top50"].v >>

\* Lines 168 and 170: the bucket limits, in pickups.
LowBelow == 5

MediumBelow == 20

\* Confidence with the limits compared by <= instead of <.
ConfidenceInclusive(p) ==
    IF p <= LowBelow THEN "low"
    ELSE IF p <= MediumBelow THEN "medium"
    ELSE "high"

\* Lines 168-173, on the raw prediction p.
Confidence(p) ==
    IF p < LowBelow THEN "low"
    ELSE IF p < MediumBelow THEN "medium"
    ELSE "high"

\* Clamp with the max(0, ...) left out.
ClampLeftOut(p) == p

\* Line 178: max(0, prediction).
Clamp(p) == IF 0 >= p THEN 0 ELSE p

\* Lines 177-181.
PredictionResponse(p) ==
    [predicted_pickups |-> Clamp(p),
     confidence |-> Confidence(p),
     model_version |-> "xgboost-v1.0-test-mae-0.84"]

\* Lines 139-185, given what load_model did and what model.predict does
\* (out: Some(raw prediction), or None when it raises).
predict(res, out) ==
    IF res.exc # NoExc
      THEN Response("predict", 500, "Prediction error: " \o res.exc, None)
    ELSE IF out = None
      THEN Response("predict", 500, "Prediction error: predict", None)
    ELSE Response("predict", 200, "", Some(PredictionResponse(The(out))))

\* ------------------------------------------------------------- api.py: /info
\* Lines 197-203.
InfoBody(d) ==
    [model_type |-> Get(d, "model_type"),
     n_features |-> Get(d, "n_features"),
     features |-> Get(d, "features"),
     hyperparameters |-> Get(d, "hyperparameters"),
     metrics |-> Get(d, "metrics")]

\* model_info without the `if results is None` test: an empty answer.
model_info_unchecked(res) ==
    IF res.exc # "none"
      THEN Response("info", 500, res.exc, None)
      ELSE Response("info", 200, "",
                    Some(InfoBody(IF res.results = None THEN [k \in {} |-> 0]
                                                        ELSE The(res.results))))

\* Lines 191-207, given what load_model did.  The HTTPException of line 195
\* is raised inside the try and caught by line 205, which raises another 500.
model_info(res) ==
    IF res.exc # NoExc
      THEN Response("info", 500, res.exc, None)
    ELSE IF res.results = None
      THEN Response("info", 500, "Results metadata not available", None)
    ELSE Response("info", 200, "", Some(InfoBody(The(res.results))))


\* ------------------------------------------------------------- inputs
FieldIndex(f) == CHOOSE i \in 1..Len(FEATURE_COLUMNS) : FEATURE_COLUMNS[i] = f

\* The valid body number k: k * i in the field FEATURE_COLUMNS[i].
BodyOf(k) == [f \in RequestFields |-> Num(k * FieldIndex(f))]

ValidBodies == { BodyOf(k) : k \in 1..MaxBody }

\* Body 1 without the field f.
BodyWithout(f) == [g \in RequestFields \ {f} |-> BodyOf(1)[g]]

\* Body 1 with a non-numeric string in the field f.
BodyWithText(f) == [BodyOf(1) EXCEPT ![f] = NotANumber]

Bodies ==
    ValidBodies \cup { BodyWithout(f) : f \in RequestFields }
                \cup { BodyWithText(f) : f \in RequestFields }

\* What model.predict(features)[0] can be: any raw value, or an exception.
RawValues == (0 - MaxNeg) .. MaxRaw

InferenceOutcomes == {None} \cup { Some(p) : p \in RawValues }

\* The inputs of /predict where the claims are about the cache and the store
\* and not about the prediction: a valid body and a refused one, an
\* inference that raises and one that returns.
SampleBodies == { BodyOf(1), BodyWithout("zone_is_top50") }

SampleOutcomes == { None, Some(MaxRaw) }

\* ------------------------------------------------------------- train.py
\* The XGBRegressor fitted by run r (train_model, lines 30-43).
FittedModel(r) == [kind |-> "XGBRegressor", run |-> r]

\* evaluate_model's result (lines 54-70) for the model of run r: the numbers
\* computed for it, for which r stands.
MetricsOf(r) ==
    [split \in {"train", "val", "test"} |-> [mae |-> r, rmse |-> r, r2 |-> r]]

\* save_model, lines 116-122.
ResultsWithMeta(feature_cols, results) ==
    [model_type |-> "XGBoost",
     n_features |-> Len(feature_cols),
     features |-> feature_cols,
     hyperparameters |-> XGBOOST_PARAMS,
     metrics |-> results]

\* ------------------------------------------------------------- initial store
\* results.json files a store can hold before the first run of a behaviour:
\* an empty object, one whose metrics have no test split, one whose test
\* split has no mae, and one written by save_model.
PriorResults ==
    { [k \in {} |-> 0],
      [model_type |-> "XGBoost", metrics |-> [train |-> [mae |-> 1]]],
      [model_type |-> "XGBoost", metrics |-> [test |-> [rmse |-> 1]]],
      ResultsWithMeta(FEATURE_COLUMNS, MetricsOf(0)) }

\* The model and the feature list are there together or not at all; the
\* results are missing or one of the above.
InitStores ==
    { [model |-> IF have THEN File(0, FittedModel(0)) ELSE Absent,
       features |-> IF have THEN File(0, FEATURE_COLUMNS) ELSE Absent,
       results |-> r] :
        have \in BOOLEAN,
        r \in {Absent} \cup { File(0, d) : d \in PriorResults } }

\* The store a successful earlier run left.
CompleteStore ==
    [model |-> File(0, FittedModel(0)),
     features |-> File(0, FEATURE_COLUMNS),
     results |-> File(0, ResultsWithMeta(FEATURE_COLUMNS, MetricsOf(0)))]

InitWith(stores) ==
    /\ \E s \in stores :
          /\ modelFile = s.model
          /\ featureFile = s.features
          /\ resultsFile = s.results
          /\ storeAtStart = s
    /\ tpc = "idle"
    /\ run = 0
    /\ trained = None
    /\ metrics = None
    /\ lifespan \in BOOLEAN
    /\ strictNone \in BOOLEAN
    /\ phase = IF lifespan THEN "starting" ELSE "ready"
    /\ _model = None
    /\ _results = None
    /\ pending = [cold |-> 0, warm |-> 0]
    /\ handled = 0
    /\ modelLoads = 0
    /\ firstLoad = None
    /\ lastLoad = None
    /\ coldHandled = 0
    /\ lastInfer = None
    /\ lastReq = None
    /\ lastResp = NoResponse

Init == InitWith(InitStores)

\* ------------------------------------------------------------- trainer actions
TrainIdle == tpc \in {"idle", "done", "failed"}

\* `python train.py`: main() is entered.
TrainBegin ==
    /\ TrainIdle
    /\ run < MaxRuns
    /\ run' = run + 1
    /\ tpc' = "load"
    /\ trained' = None
    /\ metrics' = None
    /\ storeAtStart' = store
    /\ UNCHANGED << storeVars, serveVars >>

TrainStep(from, to) ==
    /\ tpc = from
    /\ tpc' = to
    /\ UNCHANGED << run, storeAtStart, serveVars >>

\* Lines 140-147: load_features, prepare_features.
LoadFeatures ==
    /\ TrainStep("load", "fit")
    /\ UNCHANGED << storeVars, trained, metrics >>

\* TrainModel that also saves the fitted model, before the evaluation.
TrainModelSavesEarly ==
    /\ TrainStep("fit", "evaluate")
    /\ trained' = Some(FittedModel(run))
    /\ modelFile' = File(run, FittedModel(run))
    /\ UNCHANGED << featureFile, resultsFile, metrics >>

\* Line 150: train_model.
TrainModel ==
    /\ TrainStep("fit", "evaluate")
    /\ trained' = Some(FittedModel(run))
    /\ UNCHANGED << storeVars, metrics >>

\* Line 153: evaluate_model.
EvaluateModel ==
    /\ TrainStep("evaluate", "mkdir")
    /\ metrics' = Some(MetricsOf(run))
    /\ UNCHANGED << storeVars, trained >>

\* save_model, line 103: MODELS_DIR.mkdir(exist_ok=True).
SaveMkdir ==
    /\ TrainStep("mkdir", "open_model")
    /\ UNCHANGED << storeVars, trained, metrics >>

\* Line 107: open(model_path, 'wb') creates or truncates the file.
OpenModelFile ==
    /\ TrainStep("open_model", "dump_model")
    /\ modelFile' = Torn
    /\ UNCHANGED << featureFile, resultsFile, trained, metrics >>

\* Line 108: pickle.dump(model, f), and the file is closed.
DumpModel ==
    /\ TrainStep("dump_model", "open_features")
    /\ modelFile' = File(run, The(trained))
    /\ UNCHANGED << featureFile, resultsFile, trained, metrics >>

\* OpenFeatureFile opening the results file instead: the results come before
\* the feature list.
OpenResultsBeforeFeatures ==
    /\ TrainStep("open_features", "write_features")
    /\ resultsFile' = Torn
    /\ UNCHANGED << modelFile, featureFile, trained, metrics >>

\* Line 112: open(feature_path, 'w').
OpenFeatureFile ==
    /\ TrainStep("open_features", "write_features")
    /\ featureFile' = Torn
    /\ UNCHANGED << modelFile, resultsFile, trained, metrics >>

\* Line 113: the feature names, one per line.
WriteFeatures ==
    /\ TrainStep("write_features", "open_results")
    /\ featureFile' = File(run, FEATURE_COLUMNS)
    /\ UNCHANGED << modelFile, resultsFile, trained, metrics >>

\* Line 125: open(results_path, 'w').
OpenResultsFile ==
    /\ TrainStep("open_results", "dump_results")
    /\ resultsFile' = Torn
    /\ UNCHANGED << modelFile, featureFile, trained, metrics >>

\* Line 126: json.dump(results_with_meta, f), and the file is closed; main
\* logs success and returns.
DumpResults ==
    /\ TrainStep("dump_results", "done")
    /\ resultsFile' = File(run, ResultsWithMeta(FEATURE_COLUMNS, The(metrics)))
    /\ UNCHANGED << modelFile, featureFile, trained, metrics >>

\* Lines 160-162: the step the run stands at raises; main logs and re-raises,
\* and the process ends.  Nothing is undone.
TrainRaise ==
    /\ ~TrainIdle
    /\ tpc' = "failed"
    /\ UNCHANGED << run, trained, metrics, storeAtStart, storeVars, serveVars >>

\* ------------------------------------------------------------- server actions
\* load_model() as the serving process calls it now.
CallLoad == load_model(_model, _results, modelFile, resultsFile)

\* What a load_model call leaves behind: the globals it assigned (also when
\* it raises afterwards) and the bookkeeping of the call.
LoadEffects(res) ==
    /\ _model' = res.model
    /\ _results' = res.results
    /\ modelLoads' = modelLoads + res.unpickled
    /\ lastLoad' = Some([later |-> (firstLoad # None), exc |-> res.exc,
                         probed |-> res.probed, opened |-> res.opened])
    /\ firstLoad' = IF firstLoad = None /\ res.exc = NoExc
                      THEN Some([model |-> res.model, results |-> res.results])
                      ELSE firstLoad

\* A request answered without a call of load_model.
NoLoad ==
    /\ lastLoad' = None
    /\ UNCHANGED << _model, _results, modelLoads, firstLoad >>

\* A client sends a request; the server accepts connections once started.
\* The request waits until the event loop takes it.
Arrive ==
    /\ phase = "ready"
    /\ handled + pending.cold + pending.warm < MaxRequests
    /\ pending' = IF _model = None
                    THEN [pending EXCEPT !.cold = @ + 1]
                    ELSE [pending EXCEPT !.warm = @ + 1]
    /\ UNCHANGED << storeVars, trainVars, lifespan, strictNone, phase, _model,
                    _results, handled, modelLoads, firstLoad, lastLoad,
                    coldHandled, lastInfer, lastReq, lastResp >>

\* The event loop takes a waiting request; handlers run one at a time.
Take(cold) ==
    /\ phase = "ready"
    /\ IF cold THEN pending.cold > 0 ELSE pending.warm > 0
    /\ pending' = IF cold THEN [pending EXCEPT !.cold = @ - 1]
                          ELSE [pending EXCEPT !.warm = @ - 1]
    /\ handled' = handled + 1
    /\ coldHandled' = IF cold THEN coldHandled + 1 ELSE coldHandled
    /\ UNCHANGED << lifespan, strictNone, phase >>

Answer(req, resp) ==
    /\ lastReq' = Some(req)
    /\ lastResp' = resp

\* StartupOutcome with the exception logged and not re-raised.
StartupOutcomeSwallowed(res) == "ready"

\* Lines 106-111: the exception of load_model is logged and re-raised, and
\* the server does not start.
StartupOutcome(res) == IF res.exc = NoExc THEN "ready" ELSE "failed"

\* startup_event, lines 103-111.
Startup ==
    /\ lifespan
    /\ phase = "starting"
    /\ LET res == CallLoad
       IN  /\ LoadEffects(res)
           /\ phase' = StartupOutcome(res)
    /\ UNCHANGED << storeVars, trainVars, lifespan, strictNone, pending, handled,
                    coldHandled, lastInfer, lastReq, lastResp >>

\* GET /health, lines 114-129.
Health(cold) ==
    /\ Take(cold)
    /\ LET res == CallLoad
       IN  /\ LoadEffects(res)
           /\ Answer([ep |-> "health", body |-> None],
                     health_check(res, strictNone))
    /\ lastInfer' = None
    /\ UNCHANGED << storeVars, trainVars >>

\* POST /predict with a body the validation refuses: the framework answers
\* 422 and predict() is not called.
PredictRejected(cold, body) ==
    /\ Take(cold)
    /\ ~ValidRequest(body)
    /\ Answer([ep |-> "predict", body |-> Some(body)],
              Response("predict", 422, "validation error", None))
    /\ NoLoad
    /\ lastInfer' = None
    /\ UNCHANGED << storeVars, trainVars >>

\* POST /predict, lines 132-185.  model.predict is called when load_model
\* returned; out is what it does.
Predict(cold, body, out) ==
    /\ Take(cold)
    /\ ValidRequest(body)
    /\ LET res == CallLoad
       IN  /\ LoadEffects(res)
           /\ Answer([ep |-> "predict", body |-> Some(body)], predict(res, out))
           /\ lastInfer' = IF res.exc = NoExc
                             THEN Some([features |-> PredictFeatures(body),
                                        out |-> out])
                             ELSE None
    /\ UNCHANGED << storeVars, trainVars >>

\* GET /info, lines 188-207.
Info(cold) ==
    /\ Take(cold)
    /\ LET res == CallLoad
       IN  /\ LoadEffects(res)
           /\ Answer([ep |-> "info", body |-> None], model_info(res))
    /\ lastInfer' = None
    /\ UNCHANGED << storeVars, trainVars >>

\* ------------------------------------------------------------- specifications
Train ==
    \/ TrainBegin
    \/ LoadFeatures
    \/ TrainModel
    \/ EvaluateModel
    \/ SaveMkdir
    \/ OpenModelFile
    \/ DumpModel
    \/ OpenFeatureFile
    \/ WriteFeatures
    \/ OpenResultsFile
    \/ DumpResults
    \/ TrainRaise

\* The serving process and the trainer side by side.
Next ==
    \/ Train
    \/ Startup
    \/ Arrive
    \/ \E cold \in BOOLEAN : Health(cold)
    \/ \E cold \in BOOLEAN, body \in SampleBodies : PredictRejected(cold, body)
    \/ \E cold \in BOOLEAN, body \in SampleBodies, out \in SampleOutcomes :
          Predict(cold, body, out)
    \/ \E cold \in BOOLEAN : Info(cold)

Spec == Init /\ [][Next]_vars

\* /predict over every body and every outcome of the inference, on a store
\* that no trainer touches.
InitPredict == InitWith({CompleteStore})

NextPredict ==
    \/ Startup
    \/ Arrive
    \/ \E cold \in BOOLEAN, body \in Bodies : PredictRejected(cold, body)
    \/ \E cold \in BOOLEAN, body \in Bodies, out \in InferenceOutcomes :
          Predict(cold, body, out)

SpecPredict == InitPredict /\ [][NextPredict]_vars

\* ------------------------------------------------------------- claims
\* The latest request was a /predict that was answered with success.
PredictAnswered ==
    /\ lastResp.ep = "predict"
    /\ lastResp.status = 200

\* The raw value model.predict returned for the latest request.
LastRaw == The(The(lastInfer).out)

\* C1: a successful /predict response carries predicted_pickups >= 0 for
\* every valid request and every raw value of the inference: a negative raw
\* prediction is returned as 0, a non-negative one unchanged.
C1_PredictedPickupsNonNegative ==
    PredictAnswered =>
        /\ lastInfer # None
        /\ The(lastInfer).out # None
        /\ The(lastResp.body).predicted_pickups >= 0
        /\ (LastRaw < 0 => The(lastResp.body).predicted_pickups = 0)
        /\ (LastRaw >= 0 => The(lastResp.body).predicted_pickups = LastRaw)

\* A negative raw prediction was answered with 0 pickups.
C1_Witness ==
    /\ PredictAnswered
    /\ lastInfer # None
    /\ LastRaw < 0
    /\ The(lastResp.body).predicted_pickups = 0

\* C2: the confidence of a /predict response is a step function of the raw,
\* unclamped prediction p: "low" exactly when p < 5, "medium" exactly when
\* 5 <= p < 20, "high" exactly when p >= 20, and never anything else.
C2_ConfidenceBuckets ==
    PredictAnswered =>
        LET c == The(lastResp.body).confidence
        IN  /\ c \in {"low", "medium", "high"}
            /\ (c = "low") <=> (LastRaw < 5)
            /\ (c = "medium") <=> (5 <= LastRaw /\ LastRaw < 20)
            /\ (c = "high") <=> (LastRaw >= 20)

\* A raw prediction of exactly 5 was answered "medium".
C2_Witness ==
    /\ PredictAnswered
    /\ lastInfer # None
    /\ LastRaw = 5
    /\ The(lastResp.body).confidence = "medium"

\* A body that lacks one of the 17 feature fields or carries a non-numeric
\* value in one.
Malformed(body) ==
    \E i \in 1..17 :
        \/ FEATURE_COLUMNS[i] \notin DOMAIN body
        \/ body[FEATURE_COLUMNS[i]].t # "num"

\* C8: a POST /predict whose body lacks one of the 17 required fields, or
\* carries a non-numeric value, is rejected before the Prediction Service
\* runs: the step that answers it calls neither load_model nor the model's
\* inference and leaves the Model Cache as it was.
C8_RejectedBeforeModel ==
    [][ ( /\ handled' = handled + 1
          /\ The(lastReq').ep = "predict"
          /\ Malformed(The(The(lastReq').body)) )
        => ( /\ lastResp'.status = 422
             /\ lastLoad' = None
             /\ lastInfer' = None
             /\ modelLoads' = modelLoads
             /\ _model' = _model
             /\ _results' = _results ) ]_vars

\* A body without a field was refused on a process whose cache is empty and
\* whose store holds a model: the cache is still empty.
C8_Witness ==
    /\ lastResp.ep = "predict"
    /\ lastResp.status = 422
    /\ "zone_is_top50" \notin DOMAIN The(The(lastReq).body)
    /\ Readable(modelFile)
    /\ _model = None
    /\ lastLoad = None

\* C3: requests that arrive together on an empty cache are handled one at a
\* time, so across all of them pickle.load returns at most once (no duplicate
\* load), and a request whose load_model call returns never sees a half
\* filled cache: it gets a model, and results of None only when it looked
\* for results.json and the file was not there.
C3_LoadedAtMostOnce ==
    /\ modelLoads <= 1
    /\ (lastLoad # None /\ The(lastLoad).exc = "none") =>
          /\ _model # None
          /\ (_results = None =>
                /\ "results" \in The(lastLoad).probed
                /\ "results" \notin The(lastLoad).opened)

\* Two requests that arrived on the empty cache have both been handled, and
\* the model was unpickled once.
C3_Witness ==
    /\ coldHandled >= 2
    /\ pending.cold = 0
    /\ modelLoads = 1
    /\ _model # None

\* C4: after the first load_model call that returned, every later call that
\* returns gives the same model and the same results (None included) as that
\* first call, and opens no file of the store.
C4_CacheNeverChanges ==
    (firstLoad # None /\ lastLoad # None /\ The(lastLoad).later
        /\ The(lastLoad).exc = "none") =>
        /\ _model = The(firstLoad).model
        /\ _results = The(firstLoad).results
        /\ The(lastLoad).opened = {}

\* The latest request was a /health.
HealthAnswered == lastResp.ep = "health"

\* C5: a /health call made while the model file is absent and the cache
\* holds no model ends with status 500 and "Model not available"; and every
\* success answer of /health says "healthy" with model_loaded true.
C5_HealthFailsWithoutModel ==
    /\ [](HealthAnswered /\ lastResp.status # 500 =>
            /\ lastResp.status = 200
            /\ The(lastResp.body).status = "healthy"
            /\ The(lastResp.body).model_loaded = TRUE)
    /\ [][ ( /\ handled' = handled + 1
             /\ lastResp'.ep = "health"
             /\ modelFile.tag = "absent"
             /\ _model = None )
           => ( /\ lastResp'.status = 500
                /\ lastResp'.detail = "Model not available" ) ]_vars

\* /health was called with no model file and no model cached, and failed.
C5_Witness ==
    /\ HealthAnswered
    /\ lastResp.status = 500
    /\ lastResp.detail = "Model not available"
    /\ modelFile.tag = "absent"
    /\ _model = None
    /\ The(lastLoad).exc = "FileNotFoundError"

\* The test-split MAE of the cached results, None when there is none.
CachedTestMae ==
    IF _results = None THEN None
    ELSE IF "metrics" \notin DOMAIN The(_results) THEN None
    ELSE IF "test" \notin DOMAIN The(_results).metrics THEN None
    ELSE IF "mae" \notin DOMAIN The(_results).metrics.test THEN None
    ELSE {The(_results).metrics.test.mae}

\* C6: /health fails only if the model itself fails to load: whenever the
\* model is loaded, /health answers 200 "healthy", with test_mae the test
\* MAE of the results when there is one and null otherwise.  Stated for the
\* builds that accept a null test_mae.
C6_HealthFailsOnlyOnModel ==
    (HealthAnswered /\ ~strictNone /\ _model # None) =>
        /\ lastResp.status = 200
        /\ The(lastResp.body).status = "healthy"
        /\ The(lastResp.body).test_mae = CachedTestMae

\* The latest request was an /info whose load_model call returned.
InfoLoaded ==
    /\ lastResp.ep = "info"
    /\ lastLoad # None
    /\ The(lastLoad).exc = "none"

\* C7: /info answers 500 whenever the results are absent from the cache
\* after loading, although the model loaded; with results in the cache it
\* answers 200 with exactly model_type, n_features, features,
\* hyperparameters and metrics, each as the cached results have it (null
\* when they do not).
C7_InfoNeedsMetadata ==
    InfoLoaded =>
        /\ _results = None => lastResp.status = 500 /\ lastResp.body = None
        /\ _results # None =>
              /\ lastResp.status = 200
              /\ DOMAIN The(lastResp.body) =
                    {"model_type", "n_features", "features",
                     "hyperparameters", "metrics"}
              /\ \A k \in DOMAIN The(lastResp.body) :
                    The(lastResp.body)[k] =
                        IF k \in DOMAIN The(_results)
                          THEN {The(_results)[k]} ELSE {}

\* /info failed on a process whose model is loaded and whose results are not.
C7_Witness ==
    /\ InfoLoaded
    /\ lastResp.status = 500
    /\ _model # None
    /\ _results = None

\* C9: under a server that fires the startup event, load_model is called
\* during startup and before any request is received; when it raises, the
\* process is never ready and handles nothing; so whenever a request is
\* waiting or has been handled, the cache holds a model.
C9_LoadedBeforeServing ==
    /\ [](lifespan =>
            /\ phase = "starting" => lastLoad = None /\ _model = None
            /\ phase # "ready" =>
                  handled = 0 /\ pending.cold = 0 /\ pending.warm = 0
            /\ phase = "ready" => _model # None
            /\ (handled > 0 \/ pending.cold > 0 \/ pending.warm > 0) =>
                  _model # None)
    /\ [][ /\ (phase = "starting" /\ phase' = "ready") =>
                The(lastLoad').exc = "none"
           /\ (phase = "starting"
                 /\ (modelFile.tag # "file" \/ resultsFile.tag = "torn")) =>
                phase' # "ready"
           /\ phase = "failed" => phase' = "failed" ]_vars

\* Startup failed for want of a model file, and nothing was served.
C9_Witness ==
    /\ lifespan
    /\ phase = "failed"
    /\ The(lastLoad).exc = "FileNotFoundError"
    /\ handled = 0

\* C10, as claimed: a training run that has failed, at whatever point, left
\* the store exactly as it was before the run.
C10_FailedRunLeavesStore == tpc = "failed" => store = storeAtStart

\* C10, amended: a run that fails before evaluate_model has returned left the
\* store exactly as it was; a run that fails later left every resource as it
\* was, torn, or written by this run, and changed a resource only after it
\* wrote the ones before it (model, feature list, results).
C10_FailedRunBeforeSave ==
    tpc = "failed" =>
        /\ metrics = None => store = storeAtStart
        /\ \A r \in Resources :
              \/ store[r] = storeAtStart[r]
              \/ store[r].tag = "torn"
              \/ store[r].tag = "file" /\ store[r].run = run
        /\ featureFile # storeAtStart.features =>
              modelFile.tag = "file" /\ modelFile.run = run
        /\ resultsFile # storeAtStart.results =>
              featureFile.tag = "file" /\ featureFile.run = run

\* A run failed in evaluate_model, and the earlier model is still there.
C10_Witness ==
    /\ tpc = "failed"
    /\ trained # None
    /\ metrics = None
    /\ modelFile.tag = "file"
    /\ modelFile.run < run

\* The results metadata in the store were written whole by a run of this
\* behaviour.
ResultsOfThisRun ==
    /\ resultsFile.tag = "file"
    /\ resultsFile.run >= 1

\* C11: the row /predict hands to the model has one value for each of the 17
\* names of FEATURE_COLUMNS, and its i-th value is the value of the request
\* field named FEATURE_COLUMNS[i]; the results metadata a training run writes
\* record FEATURE_COLUMNS as 'features' and its length as 'n_features'; so
\* the i-th value of the row is the field that the recorded list names at i.
C11_FeatureOrder ==
    /\ Len(FEATURE_COLUMNS) = 17
    /\ lastInfer # None =>
          LET body == The(The(lastReq).body)
              row == The(lastInfer).features
          IN  /\ Len(row) = Len(FEATURE_COLUMNS)
              /\ \A i \in 1..Len(FEATURE_COLUMNS) :
                    row[i] = body[FEATURE_COLUMNS[i]].v
    /\ ResultsOfThisRun =>
          /\ resultsFile.data.features = FEATURE_COLUMNS
          /\ resultsFile.data.n_features = Len(resultsFile.data.features)
    /\ (lastInfer # None /\ ResultsOfThisRun) =>
          \A i \in 1..resultsFile.data.n_features :
              The(lastInfer).features[i] =
                  The(The(lastReq).body)[resultsFile.data.features[i]].v

\* A row was handed to the model while the store holds the metadata that the
\* run of this behaviour wrote.
C11_Witness ==
    /\ lastInfer # None
    /\ lastResp.ep = "predict"
    /\ lastResp.status = 200
    /\ ResultsOfThisRun
    /\ tpc = "done"

\* The runs of this behaviour that have a whole file in the store.
RunsInStore ==
    { store[x].run : x \in { y \in Resources : store[y].tag = "file" } } \ {0}

\* The store holds no torn file and whole files of one run of this behaviour
\* only, beside what was there before the behaviour began.
WrittenByOneRun ==
    /\ Cardinality(RunsInStore) = 1
    /\ \A x \in Resources : store[x].tag # "torn"

\* C12: a training run changes no resource of the store before train_model
\* and evaluate_model have both returned; it changes the model file first,
\* the feature list only once the model of the run is written, the results
\* only once the model and the feature list of the run are written; a run
\* that failed in fit or evaluation left the store as it was; and a store
\* written by one run holds the results of that run only together with its
\* model and its feature list.
C12_WritesOrderedAfterEvaluation ==
    /\ [][ /\ store' # store =>
                 /\ trained # None
                 /\ metrics # None
           /\ modelFile' # modelFile =>
                 /\ featureFile = storeAtStart.features
                 /\ resultsFile = storeAtStart.results
           /\ featureFile' # featureFile =>
                 /\ modelFile = File(run, The(trained))
                 /\ resultsFile = storeAtStart.results
           /\ resultsFile' # resultsFile =>
                 /\ modelFile = File(run, The(trained))
                 /\ featureFile = File(run, FEATURE_COLUMNS) ]_vars
    /\ []( (tpc = "failed" /\ (trained = None \/ metrics = None)) =>
                store = storeAtStart )
    /\ []( (WrittenByOneRun /\ resultsFile.tag = "file"
                            /\ resultsFile.run \in RunsInStore) =>
                /\ modelFile.tag = "file"
                /\ modelFile.run = resultsFile.run
                /\ featureFile.tag = "file"
                /\ featureFile.run = resultsFile.run )

\* A run has written its three files over a store that held others.
C12_Witness ==
    /\ tpc = "done"
    /\ run >= 1
    /\ \A x \in Resources : store[x].tag = "file" /\ store[x].run = run
    /\ \A x \in Resources : storeAtStart[x].tag = "file"

\* The runs whose save_model wrote the results d: the metadata of run r are
\* ResultsWithMeta of the metrics evaluated for the model of run r.
RunsOfResults(d) ==
    { r \in 0..MaxRuns : d = ResultsWithMeta(FEATURE_COLUMNS, MetricsOf(r)) }

\* C13: whenever the cache holds a model and results metadata that a training
\* run wrote, that run is the one that fitted the cached model; and a /health
\* or /info answered with success from such a cache reports the metrics of
\* the run that fitted the cached model.
C13_CacheOfOneRun ==
    (_model # None /\ _results # None /\ RunsOfResults(The(_results)) # {}) =>
        /\ The(_model).run \in RunsOfResults(The(_results))
        /\ (lastResp.ep = "health" /\ lastResp.status = 200) =>
              The(lastResp.body).test_mae =
                  Some(MetricsOf(The(_model).run).test.mae)
        /\ (lastResp.ep = "info" /\ lastResp.status = 200) =>
              The(lastResp.body).metrics = Some(MetricsOf(The(_model).run))
=============================================================================
